---- MODULE Spec2Model ----
(***************************************************************************)
(* Model of the assets-sync frontend: the AuthProvider session controller  *)
(* (src/lib/auth-context.tsx), the APIClient request gateway               *)
(* (src/lib/api-client.ts), the useAPI hook that wires the two, the home   *)
(* page (src/app/auth/error/page.tsx) and the YNAB callback page           *)
(* (src/app/auth/ynab/success/page.tsx).                                   *)
(*                                                                         *)
(* JavaScript runs one task at a time: every action below is one           *)
(* synchronous run of the code between two awaits on the network (a fetch  *)
(* is issued at the end of one action and its response is the input of the *)
(* next).  React state set during a run is visible to the next render; a   *)
(* closure created by an earlier render keeps the values of that render.   *)
(***************************************************************************)
EXTENDS Integers, Sequences, FiniteSets, TLC

\* ------------------------------------------------------------------ bounds
\* Number of gateway calls (APIClient.makeRequest) per page load.
MaxReqs == 2

Reqs == 1..MaxReqs

\* ------------------------------------------------------------------ tokens
\* A token is the sequence of its "."-separated segments (token.split(".")).
\* A segment is base64 text or not; base64 text decodes to JSON text or not;
\* JSON text parses to null or to an object of claims.
Seg(enc, txt, sub, email) ==
  [enc |-> enc, txt |-> txt, sub |-> sub, email |-> email,
   name |-> "", picture |-> ""]

HeaderSeg == Seg("b64", "obj", "", "")
ClaimsSeg ==
  [Seg("b64", "obj", "u1", "u1@example.com") EXCEPT
     !.name = "User One", !.picture = "u1.png"]
\* the claims of the same subject after a change of the display name
RenamedClaimsSeg == [ClaimsSeg EXCEPT !.name = "User 1"]
NotJsonSeg == Seg("b64", "nojson", "", "")
NullJsonSeg == Seg("b64", "null", "", "")
RawSeg(s) == Seg("raw", s, "", "")

\* null / absent token (split never returns an empty array)
NoToken == <<>>

TokA == <<HeaderSeg, ClaimsSeg, RawSeg("sigA")>>
TokB == <<HeaderSeg, RenamedClaimsSeg, RawSeg("sigB")>>
TokNoDot == <<RawSeg("garbage")>>
TokNotJson == <<HeaderSeg, NotJsonSeg, RawSeg("sigA")>>
TokNullPayload == <<HeaderSeg, NullJsonSeg, RawSeg("sigA")>>

\* tokens that may arrive in the page URL
UrlTokens == {TokA, TokNoDot, TokNullPayload}
\* tokens the refresh endpoint may return
RefreshTokens == {TokB, TokNotJson}
\* tokens a previous page load may have left in localStorage
StoredTokens == {TokA}

\* token.split(".")[1]; a missing element is undefined, which atob() reads
\* as the text "undefined" (9 characters, not valid base64)
SplitSecond(token) ==
  IF Len(token) >= 2 THEN token[2] ELSE RawSeg("undefined")

\* atob(x) throws unless x is base64 text
AtobThrows(seg) == seg.enc # "b64"

\* JSON.parse(x) throws unless x is JSON text
JsonParseThrows(seg) == seg.txt = "nojson"

\* payload.sub throws a TypeError when payload is null
ClaimAccessThrows(seg) == seg.txt = "null"

\* handleNewToken's try block throws for this token
DecodeThrows(token) ==
  LET seg == SplitSecond(token)
  IN  AtobThrows(seg) \/ JsonParseThrows(seg) \/ ClaimAccessThrows(seg)

\* ------------------------------------------------------------------ session
NoUser ==
  [present |-> FALSE, id |-> "", email |-> "", name |-> "", picture |-> ""]

\* the object passed to setUser
UserOf(token) ==
  LET payload == SplitSecond(token)
  IN  [present |-> TRUE, id |-> payload.sub, email |-> payload.email,
       name |-> payload.name, picture |-> payload.picture]

\* useState initial values of AuthProvider
InitialAuth ==
  [user |-> NoUser, accessToken |-> NoToken,
   isAuthenticated |-> FALSE, isLoading |-> TRUE]

\* A world is the pair of the AuthProvider state and localStorage.
World(a, ls) == [auth |-> a, ls |-> ls]

\* a clearAuth that forgets setUser(null)
clearAuthKeepUser(w) ==
  World([w.auth EXCEPT !.accessToken = NoToken,
                       !.isAuthenticated = FALSE],
        [w.ls EXCEPT !.accessToken = NoToken])

clearAuth(w) ==
  World([w.auth EXCEPT !.accessToken = NoToken,
                       !.isAuthenticated = FALSE,
                       !.user = NoUser],
        [w.ls EXCEPT !.accessToken = NoToken])

\* a handleNewToken whose catch block does not call clearAuth(): what was set
\* before the exception stays (payload.sub throws after the first two setters)
handleNewTokenNoCatch(w, token) ==
  IF DecodeThrows(token)
  THEN IF ClaimAccessThrows(SplitSecond(token))
       THEN World([w.auth EXCEPT !.accessToken = token,
                                 !.isAuthenticated = TRUE], w.ls)
       ELSE w
  ELSE World([w.auth EXCEPT !.accessToken = token,
                            !.isAuthenticated = TRUE,
                            !.user = UserOf(token)],
             [w.ls EXCEPT !.accessToken = token])

\* a handleNewToken that keeps an identity that is already set
handleNewTokenStaleUser(w, token) ==
  IF DecodeThrows(token)
  THEN clearAuth(w)
  ELSE World([w.auth EXCEPT !.accessToken = token,
                            !.isAuthenticated = TRUE,
                            !.user = IF @.present THEN @ ELSE UserOf(token)],
             [w.ls EXCEPT !.accessToken = token])

\* a handleNewToken without localStorage.setItem
handleNewTokenNoStore(w, token) ==
  IF DecodeThrows(token)
  THEN clearAuth(w)
  ELSE World([w.auth EXCEPT !.accessToken = token,
                            !.isAuthenticated = TRUE,
                            !.user = UserOf(token)],
             w.ls)

handleNewToken(w, token) ==
  IF DecodeThrows(token)
  THEN clearAuth(w)
  ELSE World([w.auth EXCEPT !.accessToken = token,
                            !.isAuthenticated = TRUE,
                            !.user = UserOf(token)],
             [w.ls EXCEPT !.accessToken = token])

\* ------------------------------------------------------------------ network
\* A fetch either rejects (network error) or resolves with a status.
Statuses == {200, 401, 500}

Ok(status) == status >= 200 /\ status <= 299

Resp(net, status, body) == [net |-> net, status |-> status, body |-> body]

Responses ==
  {Resp(TRUE, 0, "")} \cup
  {Resp(FALSE, s, "body") : s \in Statuses} \cup
  {Resp(FALSE, 500, "other body")}

\* Outcome of POST /auth/refresh: network error, a non-ok status, an ok
\* status whose body is not JSON, JSON without accessToken, or JSON with one.
RefreshOut(net, status, json, tok) ==
  [net |-> net, status |-> status, json |-> json, accessToken |-> tok]

RefreshOutcomes ==
  {RefreshOut(TRUE, 0, FALSE, NoToken)} \cup
  {RefreshOut(FALSE, s, FALSE, NoToken) : s \in {401, 500}} \cup
  {RefreshOut(FALSE, 200, FALSE, NoToken)} \cup
  {RefreshOut(FALSE, 200, TRUE, t) : t \in RefreshTokens \cup {NoToken}}

NoRefreshOut == RefreshOut(FALSE, 0, FALSE, NoToken)

\* refreshToken(): the value it resolves to and the world it leaves, given
\* the outcome of its fetch
refreshToken(w, out) ==
  IF out.net THEN [ret |-> FALSE, w |-> clearAuth(w)]
  ELSE IF ~Ok(out.status) THEN [ret |-> FALSE, w |-> w]
  ELSE IF ~out.json THEN [ret |-> FALSE, w |-> clearAuth(w)]
  ELSE IF out.accessToken = NoToken THEN [ret |-> FALSE, w |-> w]
  ELSE [ret |-> TRUE, w |-> handleNewToken(w, out.accessToken)]

\* ------------------------------------------------------------------ gateway
\* The public methods of APIClient used here, as (endpoint, options).
Call(endpoint, method, body) ==
  [endpoint |-> endpoint, method |-> method, body |-> body]

Calls ==
  {Call("/auth/ynab/status", "GET", ""),
   Call("/auth/api-tokens", "POST", "{name}")}

\* useAPI: the client built by a render whose auth state is a; its token
\* getter is () => accessToken, closed over that render's accessToken
useAPI(a) == [accessToken |-> a.accessToken]

getAccessToken(client) == client.accessToken

\* fetch(url, config) as issued by makeRequest
Fetch(call, authorization) ==
  [endpoint |-> call.endpoint, method |-> call.method, body |-> call.body,
   authorization |-> authorization, credentials |-> "include"]

\* ...(token && { Authorization: `Bearer ${token}` })
AuthorizationHeader(token, inherited) ==
  IF token # NoToken THEN token ELSE inherited

\* what a makeRequest call resolves or rejects with
Outcome(kind, status, body) == [kind |-> kind, status |-> status, body |-> body]
Pending == Outcome("pending", 0, "")
AuthenticationFailed == Outcome("AuthenticationFailed", 0, "")
FetchRejected == Outcome("FetchRejected", 0, "")
HttpError(resp) == Outcome("HTTP", resp.status, resp.body)
Value(resp) == Outcome("value", resp.status, resp.body)

IdleReq ==
  [pc |-> "idle", call |-> Call("", "", ""), client |-> useAPI(InitialAuth),
   token |-> NoToken, sent |-> <<>>, got |-> <<>>,
   refreshCalls |-> 0, refreshed |-> "none", refreshOut |-> NoRefreshOut,
   result |-> Pending]

\* a gateway that refreshes on every 401, credential or not
ShouldRefreshAny401(status, token) == status = 401

\* if (res.status === 401 && token)
ShouldRefresh(status, token) == status = 401 /\ token # NoToken

\* if (!res.ok) throw new Error(`HTTP ${res.status}: ${text}`); else the body
Settle(resp) == IF Ok(resp.status) THEN Value(resp) ELSE HttpError(resp)

\* ------------------------------------------------------------------ state
VARIABLES
  url,        \* window.location: [path, token]
  auth,       \* AuthProvider state: user, accessToken, isAuthenticated, isLoading
  ls,         \* localStorage: accessToken, redirectAfterLogin
  initPc,     \* position of initializeAuth
  initTok,    \* savedToken being validated
  pendingNav, \* target of a navigation the page has requested
  reqs,       \* the APIClient.makeRequest calls of this page load
  initNet,    \* the fetches initializeAuth issued and what they answered
  logoutPc,   \* position of logout()
  page,       \* state of the mounted page component (HomePage)
  tasks       \* the handler runs of the page in progress

vars ==
  <<url, auth, ls, initPc, initTok, pendingNav, reqs, initNet, logoutPc,
    page, tasks>>

NoPath == ""
\* `${BACKEND_URL}/auth/google`
GoogleAuthUrl == "BACKEND/auth/google"
LoginPath == "/login"

NoResp == Resp(FALSE, 0, "")

\* nothing fetched yet by initializeAuth
NoInitNet == [sent |-> <<>>, resp |-> NoResp, refreshOut |-> NoRefreshOut]

\* validateToken's fetch
ValidateFetch(token) ==
  [endpoint |-> "/auth/ynab/status", method |-> "GET", body |-> "",
   authorization |-> token, credentials |-> "include"]

\* refreshToken's fetch
RefreshFetch ==
  [endpoint |-> "/auth/refresh", method |-> "POST", body |-> "",
   authorization |-> NoToken, credentials |-> "include"]

\* ------------------------------------------------------------------ pages
\* Number of gateway calls the pages of one page load have outstanding,
\* number of handler runs (loadStatuses, connectYnab, ...) in progress, and
\* number of those a click has started.
MaxSlots == 3
MaxTasks == 3
MaxRuns == 1

Slots == 1..MaxSlots
Tasks == 1..MaxTasks

HomePath == "/"
YnabSuccessPath == "/auth/ynab/success"

\* the methods of APIClient the home page calls
\* encodeURIComponent leaves the letters and digits of an id as they are
EncodeURIComponent(s) == s
WithState(endpoint, state) ==
  IF state # "" THEN endpoint \o "?state=" \o EncodeURIComponent(state)
  ELSE endpoint
getYnabStatus == Call("/auth/ynab/status", "GET", "")
getYnabAuthUrl(state) == Call(WithState("/auth/ynab/auth-url", state), "GET", "")
api_disconnectYnab == Call("/auth/ynab/disconnect", "DELETE", "")
getMonzoStatus == Call("/auth/monzo/status", "GET", "")
getMonzoAuthUrl(state) == Call(WithState("/auth/monzo/auth-url", state), "GET", "")
revokeMonzo == Call("/monzo/revoke", "GET", "")
getApiTokens == Call("/auth/api-tokens", "GET", "")
createApiToken(name) == Call("/auth/api-tokens", "POST", "{name:" \o name \o "}")
deleteApiToken(id) == Call("/auth/api-tokens/" \o id, "DELETE", "")

\* String(user.id)
StringOf(id) == IF id = "" THEN "undefined" ELSE id

\* Bodies of successful answers, and what the page reads in them.
YnabStatusBodies == {"{isAuthenticated:true}", "{isAuthenticated:false}"}
MonzoStatusBodies ==
  {"{enabled:false,connected:false}", "{enabled:true,connected:false}",
   "{enabled:true,connected:true}"}
YnabAuthUrl == "https://app.ynab.com/oauth/authorize"
MonzoAuthUrl == "https://auth.monzo.com/"
AuthUrls == {YnabAuthUrl, MonzoAuthUrl}
PlainSecret == "pat_secret"
TokenListBodies == {"[]", "[{id:1,name:ci}]"}

NoStatus == [present |-> FALSE, isAuthenticated |-> FALSE]
\* the ynab object handed to setYnabStatus
YnabStatusOf(body) ==
  [present |-> TRUE, isAuthenticated |-> body = "{isAuthenticated:true}"]

NoReport == [present |-> FALSE, enabled |-> FALSE, connected |-> FALSE]
\* the object getMonzoStatus resolves to
MonzoReportOf(body) ==
  [present |-> TRUE,
   enabled |-> body \in {"{enabled:true,connected:false}",
                         "{enabled:true,connected:true}"},
   connected |-> body = "{enabled:true,connected:true}"]
\* { isAuthenticated: monzo.connected }
MonzoStatusOf(report) ==
  [present |-> TRUE, isAuthenticated |-> report.connected]

\* const { authUrl } = await api.get...AuthUrl()
AuthUrlOf(body) ==
  IF body = "{authUrl:ynab}" THEN YnabAuthUrl
  ELSE IF body = "{authUrl:monzo}" THEN MonzoAuthUrl
  ELSE "undefined"

\* result.token of the object createApiToken resolves to
CreatedTokenOf(body) ==
  IF body = "{id:1,token:pat_secret,name:ci}" THEN PlainSecret ELSE "undefined"

\* what the backend may answer to a call of the home page
Answers(call) ==
  IF call = getYnabStatus THEN YnabStatusBodies
  ELSE IF call = getMonzoStatus THEN MonzoStatusBodies
  ELSE IF call.endpoint = "/auth/api-tokens" /\ call.method = "GET"
  THEN TokenListBodies
  ELSE IF call.endpoint = "/auth/api-tokens" /\ call.method = "POST"
  THEN {"{id:1,token:pat_secret,name:ci}"}
  ELSE IF call = getYnabAuthUrl("u1") THEN {"{authUrl:ynab}"}
  ELSE IF call = getMonzoAuthUrl("") THEN {"{authUrl:monzo}"}
  ELSE {"{success:true}"}

\* The answers to the calls of the pages: a network error, a server error or
\* success.  (What the gateway does with a 401 is followed in Spec.)
PageResponses(call) ==
  {Resp(TRUE, 0, "")} \cup
  {Resp(FALSE, 500, "body")} \cup
  {Resp(FALSE, 200, b) : b \in Answers(call)}

NoError == ""
NoPlain == ""
NoParams == [code |-> "", state |-> "", error |-> ""]
\* query strings the backend's redirect to the callback page may carry
CallbackParams ==
  {NoParams, [NoParams EXCEPT !.state = "u1"],
   [NoParams EXCEPT !.error = "access_denied"],
   [NoParams EXCEPT !.code = "c0de", !.state = "other"]}

\* useState initial values of HomePage; searchParams is what useSearchParams
\* gives the mounted page, seenAuth the isAuthenticated value the effect on
\* [isAuthenticated] last ran with, monzo the object getMonzoStatus last
\* resolved to (the page keeps only its connected field, in monzoStatus)
InitialPage ==
  [searchParams |-> NoParams, seenAuth |-> FALSE,
   ynabStatus |-> NoStatus, monzoStatus |-> NoStatus, monzo |-> NoReport,
   loading |-> TRUE, patTokens |-> "[]", loadingTokens |-> FALSE,
   creatingToken |-> FALSE, newTokenName |-> "", newTokenPlain |-> NoPlain,
   error |-> NoError]

\* A handler run: which handler, where it waits, the render whose values it
\* closed over (user, isAuthenticated, and through useAPI the accessToken)
\* and the gateway calls it awaits.
NoTask ==
  [kind |-> "none", pc |-> "idle", snap |-> InitialAuth, slots |-> <<>>]
NoTasks == [t \in Tasks |-> NoTask]

Init ==
  /\ url \in {[path |-> "/auth/success", token |-> t] : t \in UrlTokens}
          \cup {[path |-> "/", token |-> NoToken]}
  /\ auth = InitialAuth
  /\ ls \in {[accessToken |-> t, redirectAfterLogin |-> p] :
               t \in StoredTokens \cup {NoToken}, p \in {NoPath, "/settings"}}
  \* a return path is in the store only between login() and the landing
  /\ ls.redirectAfterLogin # NoPath => url.token # NoToken
  /\ initPc = "start"
  /\ initTok = NoToken
  /\ pendingNav = NoPath
  /\ reqs = [r \in Reqs |-> IdleReq]
  /\ initNet = NoInitNet
  /\ logoutPc = "idle"
  /\ page = InitialPage
  /\ tasks = NoTasks

Here == World(auth, ls)

\* ------------------------------------------------------------------ gateway actions
\* makeRequest up to its first fetch
StartRequest(r, call) ==
  /\ reqs[r].pc = "idle"
  /\ r > 1 => reqs[r - 1].pc # "idle"
  /\ initPc # "start"
  /\ pendingNav = NoPath
  /\ LET client == useAPI(auth)
         token == getAccessToken(client)
     IN  reqs' = [reqs EXCEPT ![r] =
           [@ EXCEPT !.pc = "first", !.call = call, !.client = client,
                     !.token = token,
                     !.sent = <<Fetch(call, AuthorizationHeader(token, NoToken))>>]]
  /\ UNCHANGED <<page, tasks, url, auth, ls, initPc, initTok, pendingNav, initNet, logoutPc>>

\* a gateway that sends the retry together with the refresh
FirstResponseSpeculative(r, resp) ==
  /\ reqs[r].pc = "first"
  /\ LET q == [reqs[r] EXCEPT !.got = Append(@, resp)]
     IN  reqs' = [reqs EXCEPT ![r] =
           IF resp.net
           THEN [q EXCEPT !.pc = "done", !.result = FetchRejected]
           ELSE IF ShouldRefresh(resp.status, q.token)
           THEN [q EXCEPT !.pc = "refreshing", !.refreshCalls = @ + 1,
                          !.refreshed = "pending",
                          !.sent = Append(@, q.sent[1])]
           ELSE [q EXCEPT !.pc = "done", !.result = Settle(resp)]]
  /\ UNCHANGED <<page, tasks, url, auth, ls, initPc, initTok, pendingNav, initNet, logoutPc>>

\* a gateway that purges the session when its first fetch fails
FirstResponsePurgeOnFailure(r, resp) ==
  /\ reqs[r].pc = "first"
  /\ LET q == [reqs[r] EXCEPT !.got = Append(@, resp)]
         failed == resp.net \/ (~Ok(resp.status) /\
                                ~ShouldRefresh(resp.status, q.token))
         w == IF failed THEN clearAuth(Here) ELSE Here
     IN  /\ reqs' = [reqs EXCEPT ![r] =
               IF resp.net
               THEN [q EXCEPT !.pc = "done", !.result = FetchRejected]
               ELSE IF ShouldRefresh(resp.status, q.token)
               THEN [q EXCEPT !.pc = "refreshing", !.refreshCalls = @ + 1,
                              !.refreshed = "pending"]
               ELSE [q EXCEPT !.pc = "done", !.result = Settle(resp)]]
         /\ auth' = w.auth
         /\ ls' = w.ls
  /\ UNCHANGED <<page, tasks, url, initPc, initTok, pendingNav, initNet, logoutPc>>

\* makeRequest after its first fetch settled
FirstResponse(r, resp) ==
  /\ reqs[r].pc = "first"
  /\ LET q == [reqs[r] EXCEPT !.got = Append(@, resp)]
     IN  reqs' = [reqs EXCEPT ![r] =
           IF resp.net
           THEN [q EXCEPT !.pc = "done", !.result = FetchRejected]
           ELSE IF ShouldRefresh(resp.status, q.token)
           THEN [q EXCEPT !.pc = "refreshing", !.refreshCalls = @ + 1,
                          !.refreshed = "pending"]
           ELSE [q EXCEPT !.pc = "done", !.result = Settle(resp)]]
  /\ UNCHANGED <<page, tasks, url, auth, ls, initPc, initTok, pendingNav, initNet, logoutPc>>

\* a gateway that retries whatever refreshToken() reported
AfterRefreshAlwaysRetry(q, ret) ==
  LET newToken == getAccessToken(q.client)
      newHeaders == AuthorizationHeader(newToken, q.sent[1].authorization)
  IN  [q EXCEPT !.pc = "retry",
                !.refreshed = IF ret THEN "true" ELSE "false",
                !.sent = Append(@, Fetch(q.call, newHeaders))]

\* makeRequest after the refreshToken() it awaited settled with ret
AfterRefresh(q, ret) ==
  IF ~ret
  THEN [q EXCEPT !.pc = "done", !.refreshed = "false",
                 !.result = AuthenticationFailed]
  ELSE LET newToken == getAccessToken(q.client)
           newHeaders == AuthorizationHeader(newToken, q.sent[1].authorization)
       IN  [q EXCEPT !.pc = "retry", !.refreshed = "true",
                     !.sent = Append(@, Fetch(q.call, newHeaders))]

\* the refresh fetch of a makeRequest call settled: refreshToken() finishes
\* and makeRequest continues
RefreshSettled(r, out) ==
  /\ reqs[r].pc = "refreshing"
  /\ LET rr == refreshToken(Here, out)
     IN  /\ auth' = rr.w.auth
         /\ ls' = rr.w.ls
         /\ reqs' = [reqs EXCEPT ![r] =
              AfterRefresh([@ EXCEPT !.refreshOut = out], rr.ret)]
  /\ UNCHANGED <<page, tasks, url, initPc, initTok, pendingNav, initNet, logoutPc>>

\* a gateway that treats a 401 on the retry like a 401 on the first attempt
RetryResponseLoop(r, resp) ==
  /\ reqs[r].pc = "retry"
  /\ LET q == [reqs[r] EXCEPT !.got = Append(@, resp)]
     IN  reqs' = [reqs EXCEPT ![r] =
           IF resp.net
           THEN [q EXCEPT !.pc = "done", !.result = FetchRejected]
           ELSE IF ShouldRefresh(resp.status, q.token)
           THEN [q EXCEPT !.pc = "refreshing", !.refreshCalls = @ + 1,
                          !.refreshed = "pending"]
           ELSE [q EXCEPT !.pc = "done", !.result = Settle(resp)]]
  /\ UNCHANGED <<page, tasks, url, auth, ls, initPc, initTok, pendingNav, initNet, logoutPc>>

\* makeRequest after its second fetch settled
RetryResponse(r, resp) ==
  /\ reqs[r].pc = "retry"
  /\ reqs' = [reqs EXCEPT ![r] =
       [@ EXCEPT !.pc = "done", !.got = Append(@, resp),
                 !.result = IF resp.net THEN FetchRejected ELSE Settle(resp)]]
  /\ UNCHANGED <<page, tasks, url, auth, ls, initPc, initTok, pendingNav, initNet, logoutPc>>

\* an initialization that leaves the return path in the store
InitFromUrlKeepReturnPath ==
  /\ initPc = "start"
  /\ url.token # NoToken
  /\ LET w == handleNewToken(Here, url.token)
         redirectPath == IF w.ls.redirectAfterLogin # NoPath
                         THEN w.ls.redirectAfterLogin ELSE "/"
     IN  /\ auth' = [w.auth EXCEPT !.isLoading = FALSE]
         /\ ls' = w.ls
         /\ pendingNav' = redirectPath
  /\ initPc' = "done"
  /\ UNCHANGED <<page, tasks, url, initTok, reqs, initNet, logoutPc>>

\* initializeAuth with a token in the URL
InitFromUrl ==
  /\ initPc = "start"
  /\ url.token # NoToken
  /\ LET w == handleNewToken(Here, url.token)
         redirectPath == IF w.ls.redirectAfterLogin # NoPath
                         THEN w.ls.redirectAfterLogin ELSE "/"
     IN  /\ auth' = [w.auth EXCEPT !.isLoading = FALSE]
         /\ ls' = [w.ls EXCEPT !.redirectAfterLogin = NoPath]
         /\ pendingNav' = redirectPath
  /\ initPc' = "done"
  /\ UNCHANGED <<page, tasks, url, initTok, reqs, initNet, logoutPc>>

\* an initialization that validates whatever the store holds, even nothing
InitFromStoreAlwaysValidate ==
  /\ initPc = "start"
  /\ url.token = NoToken
  /\ initPc' = "validating"
  /\ initTok' = ls.accessToken
  /\ initNet' = [initNet EXCEPT
                   !.sent = Append(@, ValidateFetch(ls.accessToken))]
  /\ UNCHANGED <<page, tasks, url, auth, ls, pendingNav, reqs, logoutPc>>

\* an initializeAuth whose setIsLoading(false) sits after the validation
\* inside the if, not in a finally block
InitFromStoreNoFinally ==
  /\ initPc = "start"
  /\ url.token = NoToken
  /\ IF ls.accessToken # NoToken
     THEN /\ initPc' = "validating"
          /\ initTok' = ls.accessToken
          /\ initNet' = [initNet EXCEPT
                           !.sent = Append(@, ValidateFetch(ls.accessToken))]
     ELSE /\ initPc' = "done"
          /\ UNCHANGED <<initTok, initNet>>
  /\ UNCHANGED <<page, tasks, url, auth, ls, pendingNav, reqs, logoutPc>>

\* initializeAuth without a token in the URL: validate the saved token, if any
InitFromStore ==
  /\ initPc = "start"
  /\ url.token = NoToken
  /\ IF ls.accessToken # NoToken
     THEN /\ initPc' = "validating"
          /\ initTok' = ls.accessToken
          /\ initNet' = [initNet EXCEPT
                           !.sent = Append(@, ValidateFetch(ls.accessToken))]
          /\ UNCHANGED auth
     ELSE /\ initPc' = "done"
          /\ auth' = [auth EXCEPT !.isLoading = FALSE]
          /\ UNCHANGED <<initTok, initNet>>
  /\ UNCHANGED <<page, tasks, url, ls, pendingNav, reqs, logoutPc>>

\* a validateToken that tries a refresh after every failed validation
ValidateResponseRefreshOnAnyError(resp) ==
  /\ initPc = "validating"
  /\ IF ~resp.net /\ ~Ok(resp.status)
     THEN /\ initPc' = "refreshing"
          /\ initNet' = [initNet EXCEPT !.resp = resp,
                                        !.sent = Append(@, RefreshFetch)]
          /\ UNCHANGED <<auth, ls>>
     ELSE LET w == IF ~resp.net /\ Ok(resp.status)
                   THEN handleNewToken(Here, initTok)
                   ELSE clearAuth(Here)
          IN  /\ auth' = [w.auth EXCEPT !.isLoading = FALSE]
              /\ ls' = w.ls
              /\ initPc' = "done"
              /\ initNet' = [initNet EXCEPT !.resp = resp]
  /\ UNCHANGED <<page, tasks, url, initTok, pendingNav, reqs, logoutPc>>

\* validateToken after its fetch settled
ValidateResponse(resp) ==
  /\ initPc = "validating"
  /\ IF ~resp.net /\ ~Ok(resp.status) /\ resp.status = 401
     THEN /\ initPc' = "refreshing"
          /\ initNet' = [initNet EXCEPT !.resp = resp,
                                        !.sent = Append(@, RefreshFetch)]
          /\ UNCHANGED <<auth, ls>>
     ELSE LET w == IF ~resp.net /\ Ok(resp.status)
                   THEN handleNewToken(Here, initTok)
                   ELSE clearAuth(Here)
          IN  /\ auth' = [w.auth EXCEPT !.isLoading = FALSE]
              /\ ls' = w.ls
              /\ initPc' = "done"
              /\ initNet' = [initNet EXCEPT !.resp = resp]
  /\ UNCHANGED <<page, tasks, url, initTok, pendingNav, reqs, logoutPc>>

\* a validateToken without `if (!refreshed) clearAuth()`
ValidateRefreshResponseNoClear(out) ==
  /\ initPc = "refreshing"
  /\ LET r == refreshToken(Here, out)
     IN  /\ auth' = [r.w.auth EXCEPT !.isLoading = FALSE]
         /\ ls' = r.w.ls
  /\ initPc' = "done"
  /\ initNet' = [initNet EXCEPT !.refreshOut = out]
  /\ UNCHANGED <<page, tasks, url, initTok, pendingNav, reqs, logoutPc>>

\* validateToken after the refreshToken() it awaited settled
ValidateRefreshResponse(out) ==
  /\ initPc = "refreshing"
  /\ LET r == refreshToken(Here, out)
         w == IF r.ret THEN r.w ELSE clearAuth(r.w)
     IN  /\ auth' = [w.auth EXCEPT !.isLoading = FALSE]
         /\ ls' = w.ls
  /\ initPc' = "done"
  /\ initNet' = [initNet EXCEPT !.refreshOut = out]
  /\ UNCHANGED <<page, tasks, url, initTok, pendingNav, reqs, logoutPc>>

\* the browser performs the navigation requested by location.replace: the
\* page unloads and the application starts again at the new URL
PageLoad ==
  /\ pendingNav # NoPath
  /\ pendingNav # GoogleAuthUrl
  /\ pendingNav \notin AuthUrls
  /\ url' = [path |-> pendingNav, token |-> NoToken]
  /\ auth' = InitialAuth
  /\ initPc' = "start"
  /\ initTok' = NoToken
  /\ pendingNav' = NoPath
  /\ reqs' = [r \in DOMAIN reqs |-> IdleReq]
  /\ initNet' = NoInitNet
  /\ logoutPc' = "idle"
  /\ page' = InitialPage
  /\ tasks' = NoTasks
  /\ UNCHANGED ls

\* login(): remember the current path, then leave for the backend
Login ==
  /\ initPc = "done"
  /\ ~auth.isAuthenticated
  /\ logoutPc = "idle"
  /\ pendingNav = NoPath
  /\ ls' = [ls EXCEPT !.redirectAfterLogin = url.path]
  /\ pendingNav' = GoogleAuthUrl
  /\ UNCHANGED <<page, tasks, url, auth, initPc, initTok, reqs, initNet, logoutPc>>

\* the backend finished the primary OAuth exchange and redirects the browser
\* to /auth/success?token=...: the application starts again at that URL
OAuthLanding(token) ==
  /\ pendingNav = GoogleAuthUrl
  /\ url' = [path |-> "/auth/success", token |-> token]
  /\ auth' = InitialAuth
  /\ initPc' = "start"
  /\ initTok' = NoToken
  /\ pendingNav' = NoPath
  /\ reqs' = [r \in DOMAIN reqs |-> IdleReq]
  /\ initNet' = NoInitNet
  /\ logoutPc' = "idle"
  /\ page' = InitialPage
  /\ tasks' = NoTasks
  /\ UNCHANGED ls

\* logout() up to its fetch of /auth/logout
Logout ==
  /\ auth.isAuthenticated
  /\ ~auth.isLoading
  /\ logoutPc = "idle"
  /\ pendingNav = NoPath
  /\ logoutPc' = "inflight"
  /\ UNCHANGED <<page, tasks, url, auth, ls, initPc, initTok, pendingNav, reqs, initNet>>

\* a logout that purges and navigates only when the endpoint answered ok
LogoutSettledOnlyOnSuccess(resp) ==
  /\ logoutPc = "inflight"
  /\ IF ~resp.net /\ Ok(resp.status)
     THEN /\ LET w == clearAuth(Here)
             IN  /\ auth' = w.auth
                 /\ ls' = w.ls
          /\ pendingNav' = LoginPath
          /\ logoutPc' = "done"
     ELSE /\ logoutPc' = "rejected"
          /\ UNCHANGED <<auth, ls, pendingNav>>
  /\ UNCHANGED <<page, tasks, url, initPc, initTok, reqs, initNet>>

\* logout() after its fetch settled, whatever the answer
LogoutSettled(resp) ==
  /\ logoutPc = "inflight"
  /\ LET w == clearAuth(Here)
     IN  /\ auth' = w.auth
         /\ ls' = w.ls
  /\ pendingNav' = LoginPath
  /\ logoutPc' = "done"
  /\ UNCHANGED <<page, tasks, url, initPc, initTok, reqs, initNet>>

\* ------------------------------------------------------------------ claims
\* the refreshToken() calls whose fetch is outstanding (0: validateToken's)
RefreshInFlight ==
  {r \in Reqs : reqs[r].pc = "refreshing"} \cup
  (IF initPc = "refreshing" THEN {0} ELSE {})

\* a redirect effect that does not wait for initialization
HomePageRedirectsWhileLoading(a) == ~a.isAuthenticated

\* HomePage's effect: if (!isLoading && !isAuthenticated) router.push("/login")
HomePageRedirectsToLogin(a) == ~a.isLoading /\ ~a.isAuthenticated

Purged(a, l) ==
  /\ a.accessToken = NoToken
  /\ a.user = NoUser
  /\ ~a.isAuthenticated
  /\ l.accessToken = NoToken

\* the first attempt of q was answered 401 and carried a credential
Unauthorized(resp) == ~resp.net /\ resp.status = 401
FirstWas401WithCredential(q) ==
  /\ Len(q.got) >= 1
  /\ Unauthorized(q.got[1])
  /\ q.sent[1].authorization # NoToken

\* C1: a gateway request whose first attempt returns 401 with a credential
\* attached calls refreshToken() exactly once and re-requests the endpoint at
\* most once; a 401 on the retried request ends the call: no further refresh
\* and no further request.
C1_RetryOnce ==
  \A r \in Reqs :
    LET q == reqs[r]
    IN  /\ q.refreshCalls <= 1
        /\ Len(q.sent) <= 2
        /\ FirstWas401WithCredential(q) => q.refreshCalls = 1
        /\ (Len(q.got) = 2 /\ Unauthorized(q.got[2])) =>
             /\ q.pc = "done"
             /\ q.refreshCalls = 1
             /\ Len(q.sent) = 2

C1_Witness ==
  \E r \in Reqs :
    /\ reqs[r].pc = "done"
    /\ Len(reqs[r].got) = 2
    /\ Unauthorized(reqs[r].got[1])
    /\ Unauthorized(reqs[r].got[2])

\* a refreshToken() call made by gateway request r finishes in this step
RefreshFinishes(r) ==
  reqs[r].refreshed = "pending" /\ reqs'[r].refreshed # "pending"

\* the fetch of refreshToken() failed: network error, non-ok status, a body
\* that is not JSON, or JSON without an accessToken
RefreshFailure(out) ==
  out.net \/ ~Ok(out.status) \/ ~out.json \/ out.accessToken = NoToken

\* C2: after a 401 with a credential and a refreshToken() that stored a new
\* credential T' and reported success, the retried request is the same request
\* (endpoint, method, body) and its Authorization header carries T', the
\* credential that is current when the retry is sent.
C2_RetryCarriesNewCredential ==
  [][\A r \in Reqs :
       (/\ reqs[r].pc = "refreshing"
        /\ reqs'[r].pc = "retry"
        /\ auth'.accessToken = reqs'[r].refreshOut.accessToken)
       => /\ reqs'[r].sent[2].endpoint = reqs[r].sent[1].endpoint
          /\ reqs'[r].sent[2].method = reqs[r].sent[1].method
          /\ reqs'[r].sent[2].body = reqs[r].sent[1].body
          /\ reqs'[r].sent[2].authorization = auth'.accessToken]_vars

\* C3: concurrent refreshToken() calls converge to one call of the refresh
\* endpoint: at most one refresh fetch is outstanding at any time.
C3_SingleFlight == Cardinality(RefreshInFlight) <= 1

\* C4: a refreshToken() call whose fetch fails in any way returns false and
\* leaves the session purged: credential null, identity null, not
\* authenticated, persisted credential removed.
C4_FailurePurges ==
  [][\A r \in Reqs :
       (RefreshFinishes(r) /\ RefreshFailure(reqs'[r].refreshOut))
       => /\ reqs'[r].refreshed = "false"
          /\ Purged(auth', ls')]_vars

\* C5: when a refreshToken() call fails the credential and the identity are
\* cleared, and a gateway call carries an Authorization header only with the
\* credential that is current when it is issued, so that calls issued after the
\* failure and before a new credential is accepted carry none.
C5_NoHeaderAfterFailedRefresh ==
  [][\A r \in Reqs :
       /\ (RefreshFinishes(r) /\ reqs'[r].refreshed = "false")
            => (auth'.accessToken = NoToken /\ auth'.user = NoUser)
       /\ (reqs[r].pc = "idle" /\ reqs'[r].pc = "first")
            => reqs'[r].sent[1].authorization = auth.accessToken]_vars

\* C6: refreshToken() returns true only when the returned credential was
\* accepted: the session is authenticated, the in-memory and the persisted
\* credential are the returned token and the identity is decoded from it.
C6_TrueOnlyWhenAccepted ==
  [][\A r \in Reqs :
       (RefreshFinishes(r) /\ reqs'[r].refreshed = "true")
       => LET t == reqs'[r].refreshOut.accessToken
          IN  /\ ~DecodeThrows(t)
              /\ auth'.isAuthenticated
              /\ auth'.accessToken = t
              /\ ls'.accessToken = t
              /\ auth'.user = UserOf(t)]_vars

\* C7: when the refreshToken() called after a 401 reports failure, the gateway
\* call ends with the authentication-failure error and the endpoint was
\* requested exactly once.
C7_FailedRefreshNoRetry ==
  \A r \in Reqs :
    reqs[r].refreshed = "false" =>
      /\ reqs[r].pc = "done"
      /\ reqs[r].result = AuthenticationFailed
      /\ Len(reqs[r].sent) = 1
      /\ Len(reqs[r].got) = 1

C7_Witness ==
  \E r \in Reqs :
    /\ reqs[r].refreshed = "false"
    /\ RefreshFailure(reqs[r].refreshOut)
    /\ FirstWas401WithCredential(reqs[r])

\* C8: the gateway calls refreshToken() if and only if the first attempt was
\* answered exactly 401 and carried a credential; a 401 without credential and
\* any other non-2xx status cause no refresh and no retry and end the call with
\* the generic error that carries the status and the response body.
C8_RefreshIffUnauthorizedWithCredential ==
  \A r \in Reqs :
    LET q == reqs[r]
    IN  Len(q.got) >= 1 =>
          /\ q.refreshCalls >= 1 <=> FirstWas401WithCredential(q)
          /\ (/\ ~q.got[1].net
              /\ ~Ok(q.got[1].status)
              /\ ~FirstWas401WithCredential(q))
             => /\ q.pc = "done"
                /\ q.refreshCalls = 0
                /\ Len(q.sent) = 1
                /\ q.result = Outcome("HTTP", q.got[1].status, q.got[1].body)

C8_Witness ==
  /\ \E r \in Reqs :
       /\ reqs[r].pc = "done"
       /\ Unauthorized(reqs[r].got[1])
       /\ reqs[r].sent[1].authorization = NoToken
  /\ \E r \in Reqs :
       /\ reqs[r].pc = "done"
       /\ reqs[r].got[1].status = 500
       /\ reqs[r].sent[1].authorization # NoToken

\* C9: a 401 on the retried request, after a successful refresh, ends the
\* gateway call with the authentication-failure error, as a failed refresh
\* does, and the home page then redirects to the login page.
C9_Surviving401IsAuthFailure ==
  [][\A r \in Reqs :
       (/\ reqs[r].pc = "retry"
        /\ reqs'[r].pc = "done"
        /\ Unauthorized(reqs'[r].got[2]))
       => /\ reqs'[r].result = AuthenticationFailed
          /\ HomePageRedirectsToLogin(auth')]_vars

\* C10: the retried request exists only once the refreshToken() call of the
\* same gateway call has completed with success; while that refresh is
\* outstanding only the first attempt has been sent.
C10_RetryAfterRefresh ==
  \A r \in Reqs :
    /\ Len(reqs[r].sent) >= 2 => reqs[r].refreshed = "true"
    /\ reqs[r].refreshed = "pending" =>
         (Len(reqs[r].sent) = 1 /\ reqs[r].pc = "refreshing")

C10_Witness ==
  \E r \in Reqs :
    /\ reqs[r].pc = "retry"
    /\ reqs[r].refreshed = "true"
    /\ Len(reqs[r].sent) = 2

\* the session holds token t as its accepted credential
Accepted(a, l, t) ==
  /\ a.isAuthenticated
  /\ a.accessToken = t
  /\ a.user = UserOf(t)
  /\ l.accessToken = t

\* C11: initialization with a decodable token in the URL ends with that token
\* persisted and in memory and the session authenticated, without any fetch;
\* and once the URL no longer shows the token the page still is in that state.
C11_UrlTokenInit ==
  [][/\ (initPc = "start" /\ url.token # NoToken /\ ~DecodeThrows(url.token))
          => /\ Accepted(auth', ls', url.token)
             /\ ~auth'.isLoading
             /\ initNet'.sent = <<>>
     /\ (url.token # NoToken /\ ~DecodeThrows(url.token)
           /\ url'.token = NoToken)
          => /\ Accepted(auth', ls', url.token)
             /\ ~auth'.isLoading
             /\ initNet'.sent = <<>>]_vars

\* C12: accepting the URL token requests no navigation, and the application
\* that accepted it is not started again.
C12_NoReloadOnAccept ==
  [][/\ (initPc = "start" /\ url.token # NoToken) => pendingNav' = NoPath
     /\ (initPc = "done" /\ url.token # NoToken) => initPc' = "done"]_vars

\* C13: initialization with no token in the URL and none in the store ends
\* unauthenticated (not loading, no credential, no identity) in one run that
\* issues no fetch.
C13_NoTokenNoCall ==
  [][(initPc = "start" /\ url.token = NoToken /\ ls.accessToken = NoToken)
       => /\ initPc' = "done"
          /\ auth' = [InitialAuth EXCEPT !.isLoading = FALSE]
          /\ initNet' = NoInitNet
          /\ ls' = ls
          /\ reqs' = reqs]_vars

C13_Witness ==
  /\ initPc = "done"
  /\ url.token = NoToken
  /\ initTok = NoToken
  /\ initNet = NoInitNet
  /\ auth = [InitialAuth EXCEPT !.isLoading = FALSE]
  /\ ls.accessToken = NoToken

C15_ValidateOutcome ==
  [][(initPc = "validating" /\ initPc' # "validating"
        /\ ~Unauthorized(initNet'.resp))
       => LET resp == initNet'.resp
          IN  /\ initPc' = "done"
              /\ ~auth'.isLoading
              /\ initNet'.sent = <<ValidateFetch(initTok)>>
              /\ IF ~resp.net /\ Ok(resp.status)
                 THEN Accepted(auth', ls', initTok) /\ ls' = ls
                 ELSE Purged(auth', ls')]_vars

C15_Witness ==
  /\ initPc = "done"
  /\ initNet.resp.status = 500
  /\ initNet.sent = <<ValidateFetch(TokA)>>
  /\ Purged(auth, ls)

\* C16: in every state of the session controller the session is authenticated
\* exactly when the in-memory credential is set, and exactly when the identity
\* is set.
C16_NoPartialState ==
  /\ auth.isAuthenticated <=> auth.accessToken # NoToken
  /\ auth.isAuthenticated <=> auth.user.present
  /\ ~auth.isAuthenticated => auth.user = NoUser

C16_Witness ==
  \E r \in Reqs :
    /\ reqs[r].refreshed = "true"
    /\ reqs[r].token # NoToken
    /\ DecodeThrows(reqs[r].refreshOut.accessToken)
    /\ ~auth.isAuthenticated

C20_IdentityIsProjection ==
  /\ auth.isAuthenticated => auth.user = UserOf(auth.accessToken)
  /\ DOMAIN ls = {"accessToken", "redirectAfterLogin"}
  /\ ls.redirectAfterLogin \in {NoPath, "/", "/settings", "/login", "/auth/success"}
  /\ ls.accessToken \in {NoToken, TokA, TokB}

C20_Witness ==
  /\ auth.isAuthenticated
  /\ auth.accessToken = TokB
  /\ auth.user.id = "u1"
  /\ auth.user.name = "User 1"

\* C18: logout() always ends resolved with the local state purged and a
\* navigation to the login page requested, whatever its fetch answered.
C18_LogoutAlwaysPurges ==
  [][(logoutPc = "inflight" /\ logoutPc' # "inflight")
       => /\ logoutPc' = "done"
          /\ Purged(auth', ls')
          /\ pendingNav' = LoginPath]_vars

C18_Witness ==
  /\ logoutPc = "done"
  /\ Purged(auth, ls)
  /\ pendingNav = LoginPath

\* login() requests the navigation to the backend in this step
LoginStep == pendingNav = NoPath /\ pendingNav' = GoogleAuthUrl

\* initializeAuth finds a token in the URL in this step
UrlInitStep == initPc = "start" /\ url.token # NoToken

\* C19: login() stores the current path under the return-path key before it
\* leaves for the backend; the initialization that finds a URL token navigates
\* to the stored path, or to "/" when there is none, and removes the key; the
\* key changes in no other step.
C19_ReturnPathRoundTrip ==
  [][/\ LoginStep
          => /\ ls'.redirectAfterLogin = url.path
             /\ ls'.accessToken = ls.accessToken
     /\ UrlInitStep
          => /\ pendingNav' = IF ls.redirectAfterLogin # NoPath
                              THEN ls.redirectAfterLogin ELSE "/"
             /\ ls'.redirectAfterLogin = NoPath
     /\ ls'.redirectAfterLogin # ls.redirectAfterLogin
          => LoginStep \/ UrlInitStep]_vars

C19_Witness ==
  /\ url = [path |-> LoginPath, token |-> NoToken]
  /\ initPc = "start"
  /\ ls.accessToken = TokA
  /\ ls.redirectAfterLogin = NoPath

\* ------------------------------------------------------------------ home page
Task(kind, pc, snap, slots) ==
  [kind |-> kind, pc |-> pc, snap |-> snap, slots |-> slots]

Range(s) == {s[i] : i \in DOMAIN s}
Lowest(S) == CHOOSE x \in S : \A y \in S : x <= y

\* the slots no call in flight and no waiting handler occupies
FreeSlots(rq, tk) ==
  {r \in DOMAIN rq :
     /\ rq[r].pc \in {"idle", "done"}
     /\ \A t \in DOMAIN tk : r \notin Range(tk[t].slots)}
FreeTasks(tk) == {t \in DOMAIN tk : tk[t].kind = "none"}

\* the record of a call whose handler has read the result
Release(rq, slots) ==
  [r \in DOMAIN rq |->
     IF r \in Range(slots) /\ rq[r].pc = "done" THEN IdleReq ELSE rq[r]]

\* makeRequest up to its first fetch, called on the client of some render
makeRequest(client, call) ==
  LET token == getAccessToken(client)
  IN  [IdleReq EXCEPT !.pc = "first", !.call = call, !.client = client,
                      !.token = token,
                      !.sent = <<Fetch(call, AuthorizationHeader(token, NoToken))>>]

HomeMounted == url.path = HomePath

\* if (isLoading || !isAuthenticated) return <spinner>: otherwise the
\* integrations and the token section are rendered
ContentShown(a) == ~(a.isLoading \/ ~a.isAuthenticated)

\* state set by a handler reaches the page only while it is mounted
Shown(pg) == IF HomeMounted THEN pg ELSE page

\* a name check that does not trim
TrimNothing(name) == name

\* newTokenName.trim()
Trim(name) == IF name = " " THEN "" ELSE name
NameInputs == {"", " ", "ci"}

\* the awaited call has settled
Settled(rq, slots) == \A i \in DOMAIN slots : rq[slots[i]].pc = "done"
Fulfilled(q) == q.pc = "done" /\ q.result.kind = "value"
Rejected(q) == q.pc = "done" /\ q.result.kind # "value"
\* Promise.all settles when every call has fulfilled or one has rejected
PromiseAllSettled(rq, slots) ==
  \/ \A i \in DOMAIN slots : Fulfilled(rq[slots[i]])
  \/ \E i \in DOMAIN slots : Rejected(rq[slots[i]])
PromiseAllFulfilled(rq, slots) ==
  \A i \in DOMAIN slots : Fulfilled(rq[slots[i]])

\* a loadStatuses that shows each provider as soon as its own call succeeded
loadStatusesSettledEach(pg, rq, slots) ==
  LET ynab == rq[slots[1]]
      monzo == rq[slots[2]]
  IN  [pg EXCEPT
         !.ynabStatus = IF Fulfilled(ynab)
                        THEN YnabStatusOf(ynab.result.body) ELSE @,
         !.monzoStatus = IF Fulfilled(monzo)
                         THEN MonzoStatusOf(MonzoReportOf(monzo.result.body))
                         ELSE @,
         !.monzo = IF Fulfilled(monzo)
                   THEN MonzoReportOf(monzo.result.body) ELSE @,
         !.loading = FALSE]

\* loadStatuses after its Promise.all settled
loadStatusesSettled(pg, rq, slots) ==
  IF PromiseAllFulfilled(rq, slots)
  THEN LET ynab == rq[slots[1]].result
           monzo == MonzoReportOf(rq[slots[2]].result.body)
       IN  [pg EXCEPT !.ynabStatus = YnabStatusOf(ynab.body),
                      !.monzoStatus = MonzoStatusOf(monzo),
                      !.monzo = monzo,
                      !.loading = FALSE]
  ELSE [pg EXCEPT !.loading = FALSE]

\* loadStatuses up to its await, run with the values of the render snap, on
\* page state pg and calls rq with the free slots free: what it leaves and
\* the slots of the calls it awaits
loadStatuses(snap, pg, rq, free) ==
  IF ~snap.isAuthenticated
  THEN [page |-> pg, reqs |-> rq, slots |-> <<>>]
  ELSE LET a == Lowest(free)
           b == Lowest(free \ {a})
           api == useAPI(snap)
       IN  [page |-> [pg EXCEPT !.loading = TRUE],
            reqs |-> [rq EXCEPT ![a] = makeRequest(api, getYnabStatus),
                                ![b] = makeRequest(api, getMonzoStatus)],
            slots |-> <<a, b>>]

\* loadTokens up to its await
loadTokens(snap, pg, rq, free) ==
  IF ~snap.isAuthenticated
  THEN [page |-> pg, reqs |-> rq, slots |-> <<>>]
  ELSE LET a == Lowest(free)
       IN  [page |-> [pg EXCEPT !.loadingTokens = TRUE, !.error = NoError],
            reqs |-> [rq EXCEPT ![a] = makeRequest(useAPI(snap), getApiTokens)],
            slots |-> <<a>>]

\* loadTokens after getApiTokens settled
loadTokensSettled(pg, q) ==
  IF Fulfilled(q)
  THEN [pg EXCEPT !.patTokens = q.result.body, !.loadingTokens = FALSE]
  ELSE [pg EXCEPT !.error = "Failed to load API tokens",
                  !.loadingTokens = FALSE]

\* the handler run t can go on: what it awaits has settled, and the calls it
\* then makes find a slot
Needs(t) ==
  IF tasks[t].pc = "call" /\ Fulfilled(reqs[tasks[t].slots[1]])
  THEN IF tasks[t].kind \in {"disconnectYnab", "disconnectMonzo"} THEN 2
       ELSE IF tasks[t].kind \in {"createToken", "deleteToken"} THEN 1
       ELSE 0
  ELSE 0
CanContinue(t) ==
  /\ tasks[t].kind # "none"
  /\ IF tasks[t].pc = "statuses"
     THEN PromiseAllSettled(reqs, tasks[t].slots)
     ELSE Settled(reqs, tasks[t].slots)
  /\ Cardinality(FreeSlots(Release(reqs, tasks[t].slots),
                           [tasks EXCEPT ![t] = NoTask])) >= Needs(t)

\* the effects a render has scheduled run before the next event is handled
AuthEffectPending ==
  /\ HomeMounted
  /\ page.seenAuth # auth.isAuthenticated
  /\ auth.isAuthenticated
       => /\ Cardinality(FreeSlots(reqs, tasks)) >= 3
          /\ Cardinality(FreeTasks(tasks)) >= 2
RedirectPending == HomeMounted /\ HomePageRedirectsToLogin(auth)
CallbackPending == url.path = YnabSuccessPath

\* a call that settled with no handler waiting for it: Promise.all has
\* rejected before, and nothing reads the result
Unobserved(r) ==
  /\ reqs[r].pc = "done"
  /\ \A t \in Tasks : r \notin Range(tasks[t].slots)

\* no continuation of an awaited call and no effect is waiting to run
Quiet ==
  /\ \A t \in Tasks : ~CanContinue(t)
  /\ \A r \in DOMAIN reqs : ~Unobserved(r)
\* a connect handler has sent the browser to the provider
Leaving == pendingNav \in AuthUrls
Idle ==
  /\ Quiet
  /\ ~AuthEffectPending /\ ~RedirectPending /\ ~CallbackPending
  /\ ~Leaving

\* ------------------------------------------------------------------ home page actions
\* useEffect on [isAuthenticated]: load the statuses and the tokens
AuthEffect ==
  /\ AuthEffectPending
  /\ IF auth.isAuthenticated
     THEN LET t1 == Lowest(FreeTasks(tasks))
              t2 == Lowest(FreeTasks(tasks) \ {t1})
              free == FreeSlots(reqs, tasks)
              s == loadStatuses(auth, page, reqs, free)
              k == loadTokens(auth, s.page, s.reqs, free \ Range(s.slots))
          IN  /\ page' = [k.page EXCEPT !.seenAuth = TRUE]
              /\ reqs' = k.reqs
              /\ tasks' = [tasks EXCEPT
                   ![t1] = Task("loadStatuses", "statuses", auth, s.slots),
                   ![t2] = Task("loadTokens", "tokens", auth, k.slots)]
     ELSE /\ page' = [page EXCEPT !.seenAuth = FALSE]
          /\ UNCHANGED <<reqs, tasks>>
  /\ UNCHANGED <<url, auth, ls, initPc, initTok, pendingNav, initNet, logoutPc>>

\* useEffect on [isAuthenticated, isLoading]: router.push("/login") leaves
\* the home page without reloading the application
RedirectToLogin ==
  /\ RedirectPending
  /\ url' = [path |-> LoginPath, token |-> NoToken]
  /\ page' = InitialPage
  /\ UNCHANGED <<auth, ls, initPc, initTok, pendingNav, reqs, initNet,
                 logoutPc, tasks>>

\* the handler runs a click has started
Runs(tk) ==
  {t \in DOMAIN tk : tk[t].kind \notin {"none", "loadStatuses", "loadTokens"}}

\* a handler run started by a click needs the content on screen
Clickable ==
  /\ HomeMounted
  /\ ContentShown(auth)
  /\ pendingNav = NoPath
  /\ Cardinality(Runs(tasks)) < MaxRuns
  /\ FreeTasks(tasks) # {}
  /\ FreeSlots(reqs, tasks) # {}

\* the run of a handler that awaits one call
StartCall(kind, call) ==
  LET t == Lowest(FreeTasks(tasks))
      a == Lowest(FreeSlots(reqs, tasks))
  IN  /\ reqs' = [reqs EXCEPT ![a] = makeRequest(useAPI(auth), call)]
      /\ tasks' = [tasks EXCEPT ![t] = Task(kind, "call", auth, <<a>>)]

\* the calls connectYnab makes for the user of its render
connectYnabCalls(user) ==
  IF ~user.present THEN <<>>
  ELSE <<getYnabAuthUrl(StringOf(user.id))>>

\* connectYnab up to its await
connectYnab ==
  /\ Clickable
  /\ ~page.ynabStatus.isAuthenticated
  /\ IF connectYnabCalls(auth.user) = <<>>
     THEN UNCHANGED <<reqs, tasks>>
     ELSE StartCall("connectYnab", connectYnabCalls(auth.user)[1])
  /\ UNCHANGED <<url, auth, ls, initPc, initTok, pendingNav, initNet,
                 logoutPc, page>>

\* connectMonzo up to its await
connectMonzo ==
  /\ Clickable
  /\ ~page.monzoStatus.isAuthenticated
  /\ StartCall("connectMonzo", getMonzoAuthUrl(""))
  /\ UNCHANGED <<url, auth, ls, initPc, initTok, pendingNav, initNet,
                 logoutPc, page>>

\* disconnectYnab up to its first await
disconnectYnab ==
  /\ Clickable
  /\ page.ynabStatus.isAuthenticated
  /\ StartCall("disconnectYnab", api_disconnectYnab)
  /\ UNCHANGED <<url, auth, ls, initPc, initTok, pendingNav, initNet,
                 logoutPc, page>>

\* disconnectMonzo up to its first await
disconnectMonzo ==
  /\ Clickable
  /\ page.monzoStatus.isAuthenticated
  /\ StartCall("disconnectMonzo", revokeMonzo)
  /\ UNCHANGED <<url, auth, ls, initPc, initTok, pendingNav, initNet,
                 logoutPc, page>>

\* onChange of the token name input
SetNewTokenName(name) ==
  /\ HomeMounted
  /\ ContentShown(auth)
  /\ pendingNav = NoPath
  /\ page.newTokenName # name
  /\ page' = [page EXCEPT !.newTokenName = name]
  /\ UNCHANGED <<url, auth, ls, initPc, initTok, pendingNav, reqs, initNet,
                 logoutPc, tasks>>

\* handleCreateToken up to its first await; the button is disabled while a
\* creation runs or the trimmed name is empty
handleCreateToken ==
  /\ Clickable
  /\ ~(page.creatingToken \/ Trim(page.newTokenName) = "")
  /\ IF Trim(page.newTokenName) = ""
     THEN UNCHANGED <<reqs, tasks, page>>
     ELSE /\ StartCall("createToken", createApiToken(Trim(page.newTokenName)))
          /\ page' = [page EXCEPT !.creatingToken = TRUE,
                                  !.newTokenPlain = NoPlain,
                                  !.error = NoError]
  /\ UNCHANGED <<url, auth, ls, initPc, initTok, pendingNav, initNet, logoutPc>>

\* handleDeleteToken(t.id) up to its first await, for a token of the list
handleDeleteToken ==
  /\ Clickable
  /\ page.patTokens # "[]"
  /\ StartCall("deleteToken", deleteApiToken("1"))
  /\ UNCHANGED <<url, auth, ls, initPc, initTok, pendingNav, initNet,
                 logoutPc, page>>

\* the result of a call nobody awaits is dropped
Drop(r) ==
  /\ Unobserved(r)
  /\ reqs' = [reqs EXCEPT ![r] = IdleReq]
  /\ UNCHANGED <<url, auth, ls, initPc, initTok, pendingNav, initNet,
                 logoutPc, page, tasks>>

\* loadStatuses (run by the effect, or awaited by a disconnect handler)
\* after its Promise.all settled
StatusesSettled(t) ==
  /\ tasks[t].pc = "statuses"
  /\ CanContinue(t)
  /\ page' = Shown(loadStatusesSettled(page, reqs, tasks[t].slots))
  /\ reqs' = Release(reqs, tasks[t].slots)
  /\ tasks' = [tasks EXCEPT ![t] = NoTask]
  /\ UNCHANGED <<url, auth, ls, initPc, initTok, pendingNav, initNet, logoutPc>>

\* loadTokens (run by the effect, or awaited by handleCreateToken or
\* handleDeleteToken) after getApiTokens settled; handleCreateToken then
\* runs its finally block
TokensSettled(t) ==
  /\ tasks[t].pc = "tokens"
  /\ CanContinue(t)
  /\ LET pg == loadTokensSettled(page, reqs[tasks[t].slots[1]])
     IN  page' = Shown(IF tasks[t].kind = "createToken"
                       THEN [pg EXCEPT !.creatingToken = FALSE] ELSE pg)
  /\ reqs' = Release(reqs, tasks[t].slots)
  /\ tasks' = [tasks EXCEPT ![t] = NoTask]
  /\ UNCHANGED <<url, auth, ls, initPc, initTok, pendingNav, initNet, logoutPc>>

\* a connect handler that leaves for the provider whatever the call gave
ConnectSettledAlwaysLeave(t) ==
  /\ tasks[t].kind \in {"connectYnab", "connectMonzo"}
  /\ tasks[t].pc = "call"
  /\ CanContinue(t)
  /\ pendingNav' = IF tasks[t].kind = "connectYnab"
                   THEN YnabAuthUrl ELSE MonzoAuthUrl
  /\ reqs' = Release(reqs, tasks[t].slots)
  /\ tasks' = [tasks EXCEPT ![t] = NoTask]
  /\ UNCHANGED <<url, auth, ls, initPc, initTok, initNet, logoutPc, page>>

\* connectYnab / connectMonzo after the auth-url call settled
ConnectSettled(t) ==
  /\ tasks[t].kind \in {"connectYnab", "connectMonzo"}
  /\ tasks[t].pc = "call"
  /\ CanContinue(t)
  /\ LET q == reqs[tasks[t].slots[1]]
     IN  pendingNav' = IF Fulfilled(q) THEN AuthUrlOf(q.result.body)
                       ELSE pendingNav
  /\ reqs' = Release(reqs, tasks[t].slots)
  /\ tasks' = [tasks EXCEPT ![t] = NoTask]
  /\ UNCHANGED <<url, auth, ls, initPc, initTok, initNet, logoutPc, page>>

\* a disconnect handler that reloads the statuses in a finally block
DisconnectSettledAlwaysReload(t) ==
  /\ tasks[t].kind \in {"disconnectYnab", "disconnectMonzo"}
  /\ tasks[t].pc = "call"
  /\ Settled(reqs, tasks[t].slots)
  /\ LET rq == Release(reqs, tasks[t].slots)
         tk == [tasks EXCEPT ![t] = NoTask]
         s == loadStatuses(tasks[t].snap, page, rq, FreeSlots(rq, tk))
     IN  /\ Cardinality(FreeSlots(rq, tk)) >= 2
         /\ page' = Shown(s.page)
         /\ reqs' = s.reqs
         /\ tasks' = IF s.slots = <<>> THEN tk
                     ELSE [tasks EXCEPT ![t].pc = "statuses",
                                        ![t].slots = s.slots]
  /\ UNCHANGED <<url, auth, ls, initPc, initTok, pendingNav, initNet, logoutPc>>

\* disconnectYnab / disconnectMonzo after the disconnect call settled
DisconnectSettled(t) ==
  /\ tasks[t].kind \in {"disconnectYnab", "disconnectMonzo"}
  /\ tasks[t].pc = "call"
  /\ CanContinue(t)
  /\ LET q == reqs[tasks[t].slots[1]]
         rq == Release(reqs, tasks[t].slots)
         tk == [tasks EXCEPT ![t] = NoTask]
         s == loadStatuses(tasks[t].snap, page, rq, FreeSlots(rq, tk))
     IN  IF Fulfilled(q)
         THEN /\ page' = Shown(s.page)
              /\ reqs' = s.reqs
              /\ tasks' = IF s.slots = <<>> THEN tk
                          ELSE [tasks EXCEPT ![t].pc = "statuses",
                                             ![t].slots = s.slots]
         ELSE /\ reqs' = rq
              /\ tasks' = tk
              /\ UNCHANGED page
  /\ UNCHANGED <<url, auth, ls, initPc, initTok, pendingNav, initNet, logoutPc>>

\* handleCreateToken after createApiToken settled
CreateTokenSettled(t) ==
  /\ tasks[t].kind = "createToken"
  /\ tasks[t].pc = "call"
  /\ CanContinue(t)
  /\ LET q == reqs[tasks[t].slots[1]]
         rq == Release(reqs, tasks[t].slots)
         tk == [tasks EXCEPT ![t] = NoTask]
         pg == [page EXCEPT !.newTokenPlain = CreatedTokenOf(q.result.body),
                            !.newTokenName = ""]
         k == loadTokens(tasks[t].snap, pg, rq, FreeSlots(rq, tk))
     IN  IF Fulfilled(q)
         THEN /\ page' = Shown(IF k.slots = <<>>
                               THEN [k.page EXCEPT !.creatingToken = FALSE]
                               ELSE k.page)
              /\ reqs' = k.reqs
              /\ tasks' = IF k.slots = <<>> THEN tk
                          ELSE [tasks EXCEPT ![t].pc = "tokens",
                                             ![t].slots = k.slots]
         ELSE /\ page' = Shown([page EXCEPT
                                  !.error = "Failed to create API token",
                                  !.creatingToken = FALSE])
              /\ reqs' = rq
              /\ tasks' = tk
  /\ UNCHANGED <<url, auth, ls, initPc, initTok, pendingNav, initNet, logoutPc>>

\* handleDeleteToken after deleteApiToken settled
DeleteTokenSettled(t) ==
  /\ tasks[t].kind = "deleteToken"
  /\ tasks[t].pc = "call"
  /\ CanContinue(t)
  /\ LET q == reqs[tasks[t].slots[1]]
         rq == Release(reqs, tasks[t].slots)
         tk == [tasks EXCEPT ![t] = NoTask]
         k == loadTokens(tasks[t].snap, page, rq, FreeSlots(rq, tk))
     IN  IF Fulfilled(q)
         THEN /\ page' = Shown(k.page)
              /\ reqs' = k.reqs
              /\ tasks' = IF k.slots = <<>> THEN tk
                          ELSE [tasks EXCEPT ![t].pc = "tokens",
                                             ![t].slots = k.slots]
         ELSE /\ page' = Shown([page EXCEPT
                                  !.error = "Failed to delete API token"])
              /\ reqs' = rq
              /\ tasks' = tk
  /\ UNCHANGED <<url, auth, ls, initPc, initTok, pendingNav, initNet, logoutPc>>

\* the provider's consent screen is done and the backend redirects the
\* browser to the callback page: the application starts again at that URL
ProviderReturn(params) ==
  /\ pendingNav = YnabAuthUrl
  /\ url' = [path |-> YnabSuccessPath, token |-> NoToken]
  /\ auth' = InitialAuth
  /\ initPc' = "start"
  /\ initTok' = NoToken
  /\ pendingNav' = NoPath
  /\ reqs' = [r \in DOMAIN reqs |-> IdleReq]
  /\ initNet' = NoInitNet
  /\ logoutPc' = "idle"
  /\ page' = [InitialPage EXCEPT !.searchParams = params]
  /\ tasks' = NoTasks
  /\ UNCHANGED ls

\* a callback page that goes to the error page when the provider said so
YnabSuccessPageErrorAware ==
  /\ CallbackPending
  /\ url' = [path |-> IF page.searchParams.error # "" THEN "/auth/error"
                      ELSE HomePath,
             token |-> NoToken]
  /\ page' = InitialPage
  /\ UNCHANGED <<auth, ls, initPc, initTok, pendingNav, reqs, initNet,
                 logoutPc, tasks>>

\* YnabSuccessPage's effect on mount: router.replace("/") puts the home page
\* in place of the callback page without reloading the application
YnabSuccessPage ==
  /\ CallbackPending
  /\ url' = [path |-> HomePath, token |-> NoToken]
  /\ page' = InitialPage
  /\ UNCHANGED <<auth, ls, initPc, initTok, pendingNav, reqs, initNet,
                 logoutPc, tasks>>

\* ------------------------------------------------------------------ home page claims
\* the handler run t goes on in this step
Continues(t) == CanContinue(t) /\ tasks'[t] # tasks[t]

\* a gateway call starts in slot r in this step
Issued(r) == reqs[r].pc # "first" /\ reqs'[r].pc = "first"

\* the handlers behind the buttons of the home page
UserActions ==
  {"connectYnab", "connectMonzo", "disconnectYnab", "disconnectMonzo",
   "createToken", "deleteToken"}

\* a call of loadStatuses settled whose Promise.all rejected while the other
\* status call is still on its way
DetachedStatusCall ==
  \E r \in DOMAIN reqs :
    /\ reqs[r].pc = "first"
    /\ reqs[r].call \in {getYnabStatus, getMonzoStatus}
    /\ \A t \in Tasks : r \notin Range(tasks[t].slots)

\* C21: when a run of loadStatuses ends because one of its two status calls
\* rejected, the YNAB status, the Monzo status and the error message on the
\* page are what they were; when both calls succeeded both statuses are the
\* ones received; and the statuses on the page change in no other step
\* (apart from the page being mounted anew).
C21_StatusLoadFailsSoft ==
  [][/\ \A t \in Tasks :
          tasks[t].pc = "statuses" /\ Continues(t)
            => IF PromiseAllFulfilled(reqs, tasks[t].slots)
               THEN HomeMounted
                      => /\ page'.ynabStatus =
                              YnabStatusOf(reqs[tasks[t].slots[1]].result.body)
                         /\ page'.monzoStatus =
                              MonzoStatusOf(MonzoReportOf(
                                reqs[tasks[t].slots[2]].result.body))
               ELSE /\ page'.ynabStatus = page.ynabStatus
                    /\ page'.monzoStatus = page.monzoStatus
                    /\ page'.error = page.error
     /\ (page'.ynabStatus # page.ynabStatus
           \/ page'.monzoStatus # page.monzoStatus)
          => \/ \E t \in Tasks : /\ tasks[t].pc = "statuses"
                                 /\ Continues(t)
                                 /\ PromiseAllFulfilled(reqs, tasks[t].slots)
             \/ /\ page'.ynabStatus = NoStatus
                /\ page'.monzoStatus = NoStatus]_vars

\* a failed load left the statuses of an earlier load on the page
C21_Witness ==
  /\ DetachedStatusCall
  /\ HomeMounted
  /\ page.ynabStatus.present
  /\ page.monzoStatus.present
  /\ ~page.loading

\* C22: when the call awaited by a handler started from a button (create
\* token, delete token, connect or disconnect YNAB or Monzo) rejects, the
\* handler sets the error message of the page.
C22_FailureSetsError ==
  [][\A t \in Tasks :
       /\ tasks[t].kind \in UserActions
       /\ tasks[t].pc = "call"
       /\ Continues(t)
       /\ Rejected(reqs[tasks[t].slots[1]])
       /\ HomeMounted
       => page'.error # NoError]_vars

\* C24: connectMonzo starts only when the last Monzo status received said
\* the integration is enabled.
C24_MonzoConnectAfterEnabled ==
  [][\A t \in Tasks :
       tasks[t].kind # "connectMonzo" /\ tasks'[t].kind = "connectMonzo"
         => page.monzo.present /\ page.monzo.enabled]_vars

\* C25: every gateway call of the home page starts while the session is
\* authenticated.
C25_CallsOnlyWhileAuthenticated ==
  [][\A r \in DOMAIN reqs : Issued(r) => auth.isAuthenticated]_vars

\* C26: a connect handler sets the location to the authorization URL its
\* call returned and leaves the location alone when the call rejected; the
\* location goes to a provider in no other step; connectYnab makes no call
\* without an identity and otherwise asks for the URL with the user's id as
\* state, connectMonzo asks without state.
C26_ConnectNavigatesToReturnedUrl ==
  [][/\ \A t \in Tasks :
          tasks[t].kind \in {"connectYnab", "connectMonzo"} /\ Continues(t)
            => LET q == reqs[tasks[t].slots[1]]
               IN  pendingNav' = IF Fulfilled(q) THEN AuthUrlOf(q.result.body)
                                 ELSE pendingNav
     /\ pendingNav' \in AuthUrls /\ pendingNav' # pendingNav
          => \E t \in Tasks :
               /\ tasks[t].kind \in {"connectYnab", "connectMonzo"}
               /\ Continues(t)
               /\ Fulfilled(reqs[tasks[t].slots[1]])
     /\ \A t \in Tasks :
          /\ tasks[t].kind = "none" /\ tasks'[t].kind = "connectYnab"
               => /\ auth.user.present
                  /\ reqs'[tasks'[t].slots[1]].call =
                       getYnabAuthUrl(StringOf(auth.user.id))
                  /\ pendingNav' = pendingNav
          /\ tasks[t].kind = "none" /\ tasks'[t].kind = "connectMonzo"
               => /\ reqs'[tasks'[t].slots[1]].call = getMonzoAuthUrl("")
                  /\ pendingNav' = pendingNav
     /\ connectYnabCalls(NoUser) = <<>>]_vars

\* connectYnab has sent the browser to the URL the backend returned
C26_Witness ==
  /\ pendingNav = YnabAuthUrl
  /\ url.path = HomePath
  /\ page.ynabStatus = YnabStatusOf("{isAuthenticated:false}")

\* C27: whatever the query of the callback page, the step taken there puts
\* "/" in place of the page and changes neither the session, the store, the
\* calls made nor the pending location.
C27_CallbackGoesHome ==
  [][CallbackPending
       => /\ url' = [path |-> HomePath, token |-> NoToken]
          /\ UNCHANGED <<auth, ls, reqs, initNet, initPc, pendingNav,
                         logoutPc, tasks>>]_vars

\* the callback page is mounted with an error in its query
C27_Witness ==
  /\ CallbackPending
  /\ page.searchParams.error = "access_denied"
  /\ ls.accessToken # NoToken

\* C28: the first fetch of every gateway call carries the session's current
\* credential as its Authorization header exactly when the session holds one,
\* and none otherwise; every fetch of a gateway call, first attempt or retry,
\* is sent with credentials "include".
C28_FirstAttemptCarriesCurrentCredential ==
  [][\A r \in DOMAIN reqs :
       /\ Issued(r) => reqs'[r].sent[1].authorization = auth'.accessToken
       /\ \A i \in 1..Len(reqs'[r].sent) :
            reqs'[r].sent[i].credentials = "include"]_vars

\* C29: whenever the credential in memory is set, the store holds the same
\* one; once initialization has finished, the session is authenticated
\* exactly when the store holds a credential.
C29_StoreMatchesSession ==
  /\ auth.accessToken # NoToken => ls.accessToken = auth.accessToken
  /\ ~auth.isLoading => (auth.isAuthenticated <=> ls.accessToken # NoToken)

\* a refresh that settled after logout() had purged the session accepted its
\* token: memory and store hold it together
C29_Witness ==
  /\ ~auth.isLoading
  /\ logoutPc = "done"
  /\ auth.isAuthenticated
  /\ auth.accessToken = TokB
  /\ ls.accessToken = TokB

\* C30: after logout() purged the session, a refresh or validation that was
\* started before it and settles later leaves memory and store without a
\* credential.
C30_LogoutIsFinal ==
  logoutPc = "done" => auth.accessToken = NoToken /\ ls.accessToken = NoToken

\* the session is exactly Authenticated (credential and identity set) or
\* exactly Unauthenticated (neither set)
ExactlySettled(a) ==
  \/ a.isAuthenticated /\ a.accessToken # NoToken /\ a.user # NoUser
  \/ ~a.isAuthenticated /\ a.accessToken = NoToken /\ a.user = NoUser

\* C31: isLoading starts true; when every fetch of initializeAuth settles,
\* isLoading eventually becomes false on every path; it becomes true again
\* only when the browser loads the application anew; and whenever it is
\* false the session is exactly Authenticated or exactly Unauthenticated.
C31_InitializationTerminates ==
  /\ auth.isLoading
  /\ auth.isLoading ~> ~auth.isLoading
  /\ [][~auth.isLoading /\ auth'.isLoading => initPc' = "start"]_vars
  /\ [](~auth.isLoading => ExactlySettled(auth))

\* initialization went through a 401 and a refresh and has finished
C31_Witness ==
  /\ ~auth.isLoading
  /\ initPc = "done"
  /\ initNet.refreshOut # NoRefreshOut

\* a step in which the home page itself navigates to /login (router.push: a
\* client-side navigation, the AuthProvider stays)
PushesLogin ==
  /\ url.path = HomePath
  /\ url'.path = LoginPath
  /\ auth' = auth

\* C32: the home page navigates to /login only when initialization has
\* finished and the session is unauthenticated, never while isLoading; the
\* dashboard is rendered, and its buttons can be clicked, only when isLoading
\* is false and isAuthenticated is true.
C32_HomePageGuard ==
  [][/\ PushesLogin => ~auth.isLoading /\ ~auth.isAuthenticated
     /\ ContentShown(auth) => ~auth.isLoading /\ auth.isAuthenticated
     /\ (\E t \in Tasks :
           tasks[t].kind = "none" /\ tasks'[t].kind \in UserActions)
          => ~auth.isLoading /\ auth.isAuthenticated]_vars

\* the stored credential failed validation and the page has gone to /login
C32_Witness ==
  /\ url.path = LoginPath
  /\ Len(initNet.sent) > 0
  /\ ~auth.isLoading
  /\ ~auth.isAuthenticated

\* a step in which a click starts handleCreateToken as run t
CreateStarts(t) == tasks[t].kind = "none" /\ tasks'[t].kind = "createToken"

\* a step in which run t of handleCreateToken goes on after createApiToken
\* settled
CreateContinues(t) ==
  /\ tasks[t].kind = "createToken"
  /\ tasks[t].pc = "call"
  /\ Continues(t)

\* a step that issues GET /auth/api-tokens
ReloadsTokens == \E r \in DOMAIN reqs : Issued(r) /\ reqs'[r].call = getApiTokens

\* C33: handleCreateToken never starts with a name that is empty once
\* trimmed; when it starts, the plaintext shown before is cleared together
\* with the request being issued; when createApiToken settles, the plaintext
\* is the created token on success and still null on failure, and the token
\* list is reloaded on success only; the plaintext changes in no other step
\* of the mounted page; when the action ends, creatingToken is false.
C33_TokenCreation ==
  [][/\ \A t \in Tasks :
          /\ CreateStarts(t) =>
               /\ page.newTokenName \notin {"", " "}
               /\ page'.newTokenPlain = NoPlain
               /\ page'.creatingToken
               /\ \E r \in DOMAIN reqs :
                    /\ Issued(r)
                    /\ reqs'[r].call = createApiToken(Trim(page.newTokenName))
          /\ CreateContinues(t) /\ HomeMounted =>
               LET q == reqs[tasks[t].slots[1]]
               IN  IF Fulfilled(q)
                   THEN /\ page'.newTokenPlain = CreatedTokenOf(q.result.body)
                        /\ ReloadsTokens
                        /\ page'.creatingToken
                   ELSE /\ page'.newTokenPlain = NoPlain
                        /\ ~ReloadsTokens
                        /\ ~page'.creatingToken
          /\ tasks[t].kind = "createToken" /\ tasks'[t].kind # "createToken"
               => ~page'.creatingToken
     /\ page'.newTokenPlain # page.newTokenPlain =>
          \/ \E t \in Tasks : CreateStarts(t) \/ CreateContinues(t)
          \/ page' = InitialPage]_vars

\* a creation succeeded, the list has been reloaded and the action has ended
C33_Witness ==
  /\ HomeMounted
  /\ page.newTokenPlain = PlainSecret
  /\ page.newTokenName = ""
  /\ page.patTokens # "[]"
  /\ ~page.creatingToken
  /\ \A t \in Tasks : tasks[t].kind = "none"

\* a step in which run t of disconnectYnab / disconnectMonzo goes on after
\* its disconnect call settled
DisconnectContinues(t) ==
  /\ tasks[t].kind \in {"disconnectYnab", "disconnectMonzo"}
  /\ tasks[t].pc = "call"
  /\ Continues(t)

\* the status calls a step issues
StatusCallsIssued ==
  {reqs'[r].call : r \in {x \in DOMAIN reqs : Issued(x)}}
    \cap {getYnabStatus, getMonzoStatus}

\* C34: a disconnect handler issues the two status calls in the step in
\* which its disconnect call has resolved, and not before; when the
\* disconnect call rejects it issues no call and the displayed statuses stay
\* as they were.
C34_DisconnectThenReload ==
  [][\A t \in Tasks :
       /\ DisconnectContinues(t) =>
            LET q == reqs[tasks[t].slots[1]]
            IN  /\ q.call \in {api_disconnectYnab, revokeMonzo}
                /\ IF Fulfilled(q)
                   THEN StatusCallsIssued = {getYnabStatus, getMonzoStatus}
                   ELSE /\ \A r \in DOMAIN reqs : ~Issued(r)
                        /\ page'.ynabStatus = page.ynabStatus
                        /\ page'.monzoStatus = page.monzoStatus
       /\ tasks'[t].kind \in {"disconnectYnab", "disconnectMonzo"}
            /\ tasks'[t] # tasks[t]
            /\ ~DisconnectContinues(t)
            => StatusCallsIssued = {}]_vars

\* a disconnect call has resolved and its handler awaits the two status
\* calls it issued then
C34_Witness ==
  \E t \in Tasks :
    /\ tasks[t].kind = "disconnectYnab"
    /\ tasks[t].pc = "statuses"
    /\ reqs[tasks[t].slots[1]].call = getYnabStatus
    /\ reqs[tasks[t].slots[2]].call = getMonzoStatus
    /\ page.loading

\* a step of the gateway call in slot r other than the completion of the
\* refreshToken() it awaits
GatewayStepOutsideRefresh(r) ==
  /\ reqs'[r] # reqs[r]
  /\ reqs'[r].pc # "idle"
  /\ reqs[r].pc # "refreshing"

\* C35: a gateway call changes the session only where the refreshToken() of
\* its 401-with-credential branch completes: issuing the call, a successful
\* answer, a non-401 error, a network failure, a 401 without credential and
\* the answer to the retry leave credential, identity, isAuthenticated and
\* the store as they were.
C35_GatewayFrame ==
  [][\A r \in DOMAIN reqs :
       GatewayStepOutsideRefresh(r) => auth' = auth /\ ls' = ls]_vars

\* a call with a credential failed with a server error, another without a
\* credential was answered 401, no refresh was made and the session stands
C35_Witness ==
  /\ auth.isAuthenticated
  /\ ls.accessToken = auth.accessToken
  /\ \E r \in DOMAIN reqs :
       /\ reqs[r].pc = "done"
       /\ reqs[r].token # NoToken
       /\ reqs[r].refreshCalls = 0
       /\ reqs[r].result.kind = "HTTP"
       /\ reqs[r].result.status = 500
  /\ \E r \in DOMAIN reqs :
       /\ reqs[r].pc = "done"
       /\ reqs[r].token = NoToken
       /\ reqs[r].refreshCalls = 0
       /\ reqs[r].result.status = 401

Next ==
  \/ InitFromUrl
  \/ InitFromStore
  \/ \E resp \in Responses : ValidateResponse(resp)
  \/ \E out \in RefreshOutcomes : ValidateRefreshResponse(out)
  \/ PageLoad
  \/ \E r \in Reqs, call \in Calls : StartRequest(r, call)
  \/ \E r \in Reqs, resp \in Responses : FirstResponse(r, resp)
  \/ \E r \in Reqs, out \in RefreshOutcomes : RefreshSettled(r, out)
  \/ \E r \in Reqs, resp \in Responses : RetryResponse(r, resp)

Spec == Init /\ [][Next]_vars

\* The session controller with login and logout and one gateway call per
\* page load.
SessionNext ==
  \/ InitFromUrl
  \/ InitFromStore
  \/ \E resp \in Responses : ValidateResponse(resp)
  \/ \E out \in RefreshOutcomes : ValidateRefreshResponse(out)
  \/ PageLoad
  \/ Login
  \/ \E token \in UrlTokens : OAuthLanding(token)
  \/ Logout
  \/ \E resp \in Responses : LogoutSettled(resp)
  \/ \E call \in Calls : StartRequest(1, call)
  \/ \E resp \in Responses : FirstResponse(1, resp)
  \/ \E out \in RefreshOutcomes : RefreshSettled(1, out)
  \/ \E resp \in Responses : RetryResponse(1, resp)

SessionSpec == Init /\ [][SessionNext]_vars

\* Every fetch issued by initializeAuth settles, and a synchronous run that
\* is ready to start does start.
InitFairness ==
  /\ WF_vars(InitFromUrl)
  /\ WF_vars(InitFromStore)
  /\ WF_vars(\E resp \in Responses : ValidateResponse(resp))
  /\ WF_vars(\E out \in RefreshOutcomes : ValidateRefreshResponse(out))

SessionLiveSpec == Init /\ [][SessionNext]_vars /\ InitFairness

\* The home page and the callback page on top of the session controller
\* and the gateway: the application is opened at "/".
HomeInit ==
  /\ url = [path |-> HomePath, token |-> NoToken]
  /\ auth = InitialAuth
  /\ ls \in {[accessToken |-> t, redirectAfterLogin |-> NoPath] :
               t \in StoredTokens \cup {NoToken}}
  /\ initPc = "start"
  /\ initTok = NoToken
  /\ pendingNav = NoPath
  /\ reqs = [r \in Slots |-> IdleReq]
  /\ initNet = NoInitNet
  /\ logoutPc = "idle"
  /\ page = InitialPage
  /\ tasks = NoTasks

ValidateAnswers ==
  {Resp(TRUE, 0, ""), Resp(FALSE, 200, "{isAuthenticated:true}")}

\* The integrations section of the home page: statuses, connect, disconnect.
HomeNext ==
  \/ \E r \in Slots : Drop(r)
  \/ \E t \in Tasks : StatusesSettled(t)
  \/ \E t \in Tasks : TokensSettled(t)
  \/ \E t \in Tasks : ConnectSettled(t)
  \/ \E t \in Tasks : DisconnectSettled(t)
  \/ Quiet /\ YnabSuccessPage
  \/ Quiet /\ AuthEffect
  \/ Quiet /\ RedirectToLogin
  \/ Quiet /\ \E params \in CallbackParams : ProviderReturn(params)
  \/ Idle /\ InitFromStore
  \/ Idle /\ \E resp \in ValidateAnswers : ValidateResponse(resp)
  \/ Idle /\ PageLoad
  \/ Idle /\ Logout
  \/ Idle /\ \E resp \in ValidateAnswers : LogoutSettled(resp)
  \/ Idle /\ connectYnab
  \/ Idle /\ connectMonzo
  \/ Idle /\ disconnectYnab
  \/ Idle /\ disconnectMonzo
  \/ Idle /\ \E r \in Slots : \E resp \in PageResponses(reqs[r].call) :
               FirstResponse(r, resp)

HomeSpec == HomeInit /\ [][HomeNext]_vars

\* The API tokens section of the home page: list, create, delete.
TokensNext ==
  \/ \E r \in Slots : Drop(r)
  \/ \E t \in Tasks : StatusesSettled(t)
  \/ \E t \in Tasks : TokensSettled(t)
  \/ \E t \in Tasks : CreateTokenSettled(t)
  \/ \E t \in Tasks : DeleteTokenSettled(t)
  \/ Quiet /\ AuthEffect
  \/ Quiet /\ RedirectToLogin
  \/ Idle /\ InitFromStore
  \/ Idle /\ \E resp \in ValidateAnswers : ValidateResponse(resp)
  \/ Idle /\ PageLoad
  \/ Idle /\ Logout
  \/ Idle /\ \E resp \in ValidateAnswers : LogoutSettled(resp)
  \/ Idle /\ \E name \in NameInputs : SetNewTokenName(name)
  \/ Idle /\ handleCreateToken
  \/ Idle /\ handleDeleteToken
  \/ Idle /\ \E r \in Slots : \E resp \in PageResponses(reqs[r].call) :
               FirstResponse(r, resp)

TokensSpec == HomeInit /\ [][TokensNext]_vars
====
